---- MODULE Spec2Model ----
(***************************************************************************)
(* Model of battle_odds.py: the round resolver (apply_damage,              *)
(* battle_round_outcome, repeated rounds) and the memoized absorption      *)
(* analysis (extended_outcome_distribution, interpret_extended_outcome,    *)
(* results).  Dice are nondeterministic: a category of n combat-value      *)
(* points rolls n dice and any number 0..n of them can hit.                *)
(***************************************************************************)
EXTENDS Integers, Sequences, FiniteSets, TLC

VARIABLES
    init,                \* BattleStanding being resolved
    air_strike,          \* BattleTroops striking before the round
    nrounds,             \* rounds still to run (repeated_battle_distribution)
    pc,                  \* position inside battle_round_outcome
    carryover,           \* local of battle_round_outcome (line 91)
    firing_defenders,    \* local of battle_round_outcome (line 91)
    remaining_attackers, \* local of battle_round_outcome (line 92)
    remaining_defenders, \* local of battle_round_outcome (line 93)
    call,                \* the latest apply_damage activation: arguments, hits, result
    cache,               \* the memo table of extended_outcome_distribution (@cache)
    stack,               \* activations of extended_outcome_distribution, innermost last
    expanded,            \* per key, how often its one-round distribution was estimated
    study,               \* the standing and air strike under study
    arg,                 \* the arguments of the latest call of results
    returned,            \* what extended_outcome_distribution returned to results
    summary,             \* how results ended
    calls                \* calls of results so far

roundVars == <<init, air_strike, nrounds, pc, carryover, firing_defenders,
               remaining_attackers, remaining_defenders, call>>

extVars == <<cache, stack, expanded, study, arg, returned, summary, calls>>

vars == <<roundVars, extVars>>

----------------------------------------------------------------------------
(* Bounds *)

MaxUnits == 2     \* units in one standing (attacker and defender together)
MaxCV == 2        \* combat value of one unit
MaxHTD == 2       \* largest hits_to_damage
MaxStrike == 4    \* combat value of the air strike
MaxRounds == 2    \* nrounds of a repeated battle
MaxCalls == 2     \* calls of results in one process
MaxExtCV == 3     \* combat value of a standing handed to results

----------------------------------------------------------------------------
(* Data model *)

BattleTroops(tf, df, sf, htd) ==
    [triple_fire_cv |-> tf, double_fire_cv |-> df, single_fire_cv |-> sf,
     hits_to_damage |-> htd]

NoTroops == BattleTroops(<<>>, <<>>, <<>>, 1)

BattleStanding(a, d) == [attacker |-> a, defender |-> d]

RECURSIVE SumSeq(_)
SumSeq(s) == IF s = <<>> THEN 0 ELSE Head(s) + SumSeq(Tail(s))

TotalCV(t) ==
    SumSeq(t.triple_fire_cv) + SumSeq(t.double_fire_cv) + SumSeq(t.single_fire_cv)

is_defeated(t) ==
    SumSeq(t.triple_fire_cv \o t.double_fire_cv \o t.single_fire_cv) = 0

BothStand(s) == ~is_defeated(s.attacker) /\ ~is_defeated(s.defender)

StandingCV(s) == TotalCV(s.attacker) + TotalCV(s.defender)

----------------------------------------------------------------------------
(* Python integer arithmetic: // rounds to minus infinity, % takes the sign
   of the divisor; both raise ZeroDivisionError on a zero divisor (the
   callers below test for it first). *)

PyFloorDiv(a, b) == IF b > 0 THEN a \div b ELSE (0 - a) \div (0 - b)

PyMod(a, b) == a - b * PyFloorDiv(a, b)

----------------------------------------------------------------------------
(* apply_damage *)

\* max(seq, default=0)
MaxOf(s) ==
    IF s = <<>> THEN 0
    ELSE CHOOSE m \in {s[i] : i \in 1..Len(s)} : \A i \in 1..Len(s) : s[i] <= m

\* list.index(v): the first position holding v
IndexOf(s, v) ==
    CHOOSE i \in 1..Len(s) : s[i] = v /\ \A j \in 1..(i - 1) : s[j] # v

Decrement(s, i) == [s EXCEPT ![i] = @ - 1]

\* The category chosen by one pass of the while loop, "none" for the break.
PickBranchTriple(t) ==
    LET max_triple == MaxOf(t.triple_fire_cv)
        max_double == MaxOf(t.double_fire_cv)
        max_single == MaxOf(t.single_fire_cv)
    IN  IF max_triple >= max_double /\ max_triple >= max_single /\ max_triple > 0
          THEN "triple"
        ELSE IF max_double >= max_single /\ max_double > 0 THEN "double"
        ELSE IF max_single > 0 THEN "single"
        ELSE "none"

PickBranch(t) ==
    LET max_triple == MaxOf(t.triple_fire_cv)
        max_double == MaxOf(t.double_fire_cv)
        max_single == MaxOf(t.single_fire_cv)
    IN  IF max_triple > max_double /\ max_triple > max_single THEN "triple"
        ELSE IF max_double > max_single THEN "double"
        ELSE IF max_single > 0 THEN "single"
        ELSE "none"

\* The body of one pass that does not break.
HitUnitUp(t, branch) ==
    IF branch = "triple" THEN
        [t EXCEPT !.triple_fire_cv =
            [@ EXCEPT ![IndexOf(@, MaxOf(@))] = @ + 1]]
    ELSE IF branch = "double" THEN
        [t EXCEPT !.double_fire_cv =
            [@ EXCEPT ![IndexOf(@, MaxOf(@))] = @ + 1]]
    ELSE
        [t EXCEPT !.single_fire_cv =
            [@ EXCEPT ![IndexOf(@, MaxOf(@))] = @ + 1]]

HitUnit(t, branch) ==
    IF branch = "triple" THEN
        [t EXCEPT !.triple_fire_cv = Decrement(@, IndexOf(@, MaxOf(@)))]
    ELSE IF branch = "double" THEN
        [t EXCEPT !.double_fire_cv = Decrement(@, IndexOf(@, MaxOf(@)))]
    ELSE
        [t EXCEPT !.single_fire_cv = Decrement(@, IndexOf(@, MaxOf(@)))]

\* while damage > 0: ... ; yields the damage left over and the troops
RECURSIVE DamageLoop(_, _)
DamageLoop(t, damage) ==
    IF damage > 0 /\ PickBranch(t) # "none"
      THEN DamageLoop(HitUnit(t, PickBranch(t)), damage - 1)
      ELSE [damage |-> damage, troops |-> t]

\* Dice of one firing: hits per category of the aggressor.
Dice(aggressor) ==
    [triple : 0..SumSeq(aggressor.triple_fire_cv),
     double : 0..SumSeq(aggressor.double_fire_cv),
     single : 0..SumSeq(aggressor.single_fire_cv)]

Rolled(dice) == dice.triple + dice.double + dice.single

\* apply_damage(victim, aggressor, carryover) under the given dice.  The
\* result records the locals hits and damage next to the returned pair.
apply_damage(victim, aggressor, carry, dice) ==
    LET hits == carry + Rolled(dice)
    IN  IF hits = 0 THEN
            [raised |-> FALSE, hits |-> hits, damage |-> 0,
             carryover |-> 0, troops |-> victim]
        ELSE IF victim.hits_to_damage = 0 THEN
            [raised |-> TRUE, hits |-> hits, damage |-> 0,
             carryover |-> 0, troops |-> victim]
        ELSE
            LET damage == PyFloorDiv(hits, victim.hits_to_damage)
                left == DamageLoop(victim, damage)
            IN  [raised |-> FALSE, hits |-> hits, damage |-> damage,
                 carryover |-> PyMod(left.damage, victim.hits_to_damage),
                 troops |-> left.troops]

----------------------------------------------------------------------------
(* Inputs *)

\* Unit lists as a caller writes them: every unit has combat value.
CVSeqs(n) == UNION {[1..k -> 1..MaxCV] : k \in 0..n}

Units(t) ==
    Len(t.triple_fire_cv) + Len(t.double_fire_cv) + Len(t.single_fire_cv)

\* The troops of at most n units whose divisor is in H.
Troops(n, H) ==
    {BattleTroops(c[1], c[2], c[3], h) :
        c \in {x \in CVSeqs(n) \X CVSeqs(n) \X CVSeqs(n) :
                  Len(x[1]) + Len(x[2]) + Len(x[3]) <= n},
        h \in H}

Standings(H) ==
    UNION {{BattleStanding(a, d) : a \in Troops(ua, H), d \in Troops(MaxUnits - ua, H)} :
             ua \in 0..MaxUnits}

AirStrikes == {NoTroops, BattleTroops(<<MaxStrike>>, <<>>, <<>>, 1)}

NoCall ==
    [victim |-> NoTroops, aggressor |-> NoTroops, carry |-> 0, rolled |-> 0,
     raised |-> FALSE, hits |-> 0, damage |-> 0, carryover |-> 0,
     troops |-> NoTroops]

Activation(victim, aggressor, carry, dice) ==
    LET r == apply_damage(victim, aggressor, carry, dice)
    IN  [victim |-> victim, aggressor |-> aggressor, carry |-> carry,
         rolled |-> Rolled(dice), raised |-> r.raised, hits |-> r.hits,
         damage |-> r.damage, carryover |-> r.carryover, troops |-> r.troops]

NoKey == [init |-> BattleStanding(NoTroops, NoTroops), air_strike |-> NoTroops]

ExtIdle ==
    /\ cache = <<>>
    /\ stack = <<>>
    /\ expanded = <<>>
    /\ study = NoKey
    /\ arg = NoKey
    /\ returned = <<>>
    /\ summary = "none"
    /\ calls = 0

RoundInit(H) ==
    /\ ExtIdle
    /\ init \in Standings(H)
    /\ air_strike \in AirStrikes
    /\ nrounds = MaxRounds
    /\ pc = "start"
    /\ carryover = 0
    /\ firing_defenders = NoTroops
    /\ remaining_attackers = NoTroops
    /\ remaining_defenders = NoTroops
    /\ call = NoCall

----------------------------------------------------------------------------
(* battle_round_outcome, one apply_damage call per action *)

\* line 91: carryover, firing_defenders = apply_damage(init.defender, air_strike)
StrikeFires ==
    /\ pc = "start"
    /\ \E dice \in Dice(air_strike) :
         LET a == Activation(init.defender, air_strike, 0, dice)
         IN  /\ call' = a
             /\ IF a.raised
                   THEN /\ pc' = "ZeroDivisionError"
                        /\ UNCHANGED <<carryover, firing_defenders>>
                   ELSE /\ pc' = "struck"
                        /\ carryover' = a.carryover
                        /\ firing_defenders' = a.troops
    /\ UNCHANGED <<init, air_strike, nrounds, remaining_attackers,
                   remaining_defenders>>
    /\ UNCHANGED extVars

\* line 92: _, remaining_attackers = apply_damage(init.attacker, firing_defenders)
DefenderFires ==
    /\ pc = "struck"
    /\ \E dice \in Dice(firing_defenders) :
         LET a == Activation(init.attacker, firing_defenders, 0, dice)
         IN  /\ call' = a
             /\ IF a.raised
                   THEN /\ pc' = "ZeroDivisionError"
                        /\ UNCHANGED remaining_attackers
                   ELSE /\ pc' = "returned"
                        /\ remaining_attackers' = a.troops
    /\ UNCHANGED <<init, air_strike, nrounds, carryover, firing_defenders,
                   remaining_defenders>>
    /\ UNCHANGED extVars

\* lines 93-97: apply_damage(firing_defenders, remaining_attackers, carryover),
\* written over the aggressor and the carry-over handed to it
Fires(aggressor, carry) ==
    /\ pc = "returned"
    /\ \E dice \in Dice(aggressor) :
         LET a == Activation(firing_defenders, aggressor, carry, dice)
         IN  /\ call' = a
             /\ IF a.raised
                   THEN /\ pc' = "ZeroDivisionError"
                        /\ UNCHANGED remaining_defenders
                   ELSE /\ pc' = "done"
                        /\ remaining_defenders' = a.troops
    /\ UNCHANGED <<init, air_strike, nrounds, carryover, firing_defenders,
                   remaining_attackers>>
    /\ UNCHANGED extVars

\* The third firing with the carry-over of the air strike left out.
AttackerFiresNoCarry == Fires(remaining_attackers, 0)

\* The third firing by the attacker as it was before the defender fired.
AttackerFiresUndamaged == Fires(init.attacker, carryover)

\* lines 93-98
AttackerFires == Fires(remaining_attackers, carryover)

Outcome == BattleStanding(remaining_attackers, remaining_defenders)

\* repeated_battle_distribution: the next round starts from the outcome
NextRound ==
    /\ pc = "done"
    /\ nrounds - 1 > 0
    /\ init' = Outcome
    /\ nrounds' = nrounds - 1
    /\ pc' = "start"
    /\ carryover' = 0
    /\ firing_defenders' = NoTroops
    /\ remaining_attackers' = NoTroops
    /\ remaining_defenders' = NoTroops
    /\ call' = NoCall
    /\ UNCHANGED air_strike
    /\ UNCHANGED extVars

Next == StrikeFires \/ DefenderFires \/ AttackerFires \/ NextRound

Divisors == {1, MaxHTD}

Init == RoundInit(Divisors)

Spec == Init /\ [][Next]_vars

\* BattleTroops takes any integer as hits_to_damage (lines 14-19).
AnyDivisors == {0 - 1, 0} \cup Divisors

InitAnyDivisor == RoundInit(AnyDivisors)

SpecAnyDivisor == InitAnyDivisor /\ [][Next]_vars


----------------------------------------------------------------------------
(* extended_outcome_distribution, interpret_extended_outcome, results *)

trials == 1000

\* The standings battle_round_outcome can return, over all dice.
RoundOutcomes(s, strike) ==
    UNION {
      LET first == apply_damage(s.defender, strike, 0, d1)
      IN  IF first.raised THEN {}
          ELSE UNION {
            LET second == apply_damage(s.attacker, first.troops, 0, d2)
            IN  IF second.raised THEN {}
                ELSE {BattleStanding(second.troops, third.troops) :
                        third \in {r \in {apply_damage(first.troops, second.troops,
                                                       first.carryover, d3) :
                                            d3 \in Dice(second.troops)} : ~r.raised}}
            : d2 \in Dice(first.troops)}
      : d1 \in Dice(strike)}

\* The key sets battle_round_outcome_distribution can return: each of the
\* trials adds one outcome, so any set of 1..trials outcomes.
Samples(s, strike) ==
    {X \in SUBSET RoundOutcomes(s, strike) : X # {} /\ Cardinality(X) <= trials}

\* An extended outcome.  The literal lists of lines 179-180 are kept as they
\* are.  A list computed from sampled frequencies (lines 181-198) is float
\* arithmetic over random counts, log and round: of it the model keeps only
\* which estimation of its standing it comes from.
LiteralOutcome(list) == [list |-> list, sample |-> 0]

SampledOutcome(n) == [list |-> <<>>, sample |-> n]

RECURSIVE ColumnSum(_, _)
ColumnSum(list, c) ==
    IF list = <<>> THEN 0 ELSE Head(list)[c] + ColumnSum(Tail(list), c)

\* lines 179-180; <<>> when neither test holds
BaseCaseDefenderFirst(s) ==
    IF is_defeated(s.defender) THEN <<LiteralOutcome(<< <<1, 0>> >>)>>
    ELSE IF is_defeated(s.attacker) THEN <<LiteralOutcome(<< <<0, 1>> >>)>>
    ELSE <<>>

BaseCase(s) ==
    IF is_defeated(s.attacker) THEN <<LiteralOutcome(<< <<0, 1>> >>)>>
    ELSE IF is_defeated(s.defender) THEN <<LiteralOutcome(<< <<1, 0>> >>)>>
    ELSE <<>>

\* @cache: the table is looked up by the value of the arguments
Uncached(key) == FALSE

Cached(key) == key \in DOMAIN cache

\* line 183: one_round.pop(init), the standings left to loop over
KeepSelf(one_round, s) == one_round

PopSelf(one_round, s) == one_round \ {s}

\* lines 187-195: the passes of the loop over one_round that call nothing
\* add to instant_win_prob or instant_defeat_prob; these standings are left
\* for the passes that recurse.
Recursed(others) ==
    {s \in others : ~is_defeated(s.defender) /\ ~is_defeated(s.attacker)}

\* interpret_extended_outcome: the ways it can end.  w / win_prob and
\* l / loss_prob are evaluated for every entry of the list, so a column that
\* sums to zero raises; whether a column of a sampled list sums to zero
\* depends on the sample.
interpret_extended_outcome(eo) ==
    IF eo.sample # 0 THEN {"summary", "ZeroDivisionError"}
    ELSE IF ColumnSum(eo.list, 1) = 0 \/ ColumnSum(eo.list, 2) = 0
      THEN {"ZeroDivisionError"}
    ELSE {"summary"}

Key(f) == [init |-> f.init, air_strike |-> f.air_strike]

Frame(s, strike) ==
    [pc |-> "call", init |-> s, air_strike |-> strike, pending |-> {}]

Top == stack[Len(stack)]

Count(key) == IF key \in DOMAIN expanded THEN expanded[key] ELSE 0

\* The innermost activation returns value to its caller.
Return(value) ==
    LET rest == SubSeq(stack, 1, Len(stack) - 1)
    IN  IF rest = <<>>
          THEN /\ stack' = <<>>
               /\ returned' = <<value>>
          ELSE /\ stack' = rest
               /\ UNCHANGED returned

\* The standings handed to results: at most one unit a side.
ExtStandings ==
    {s \in {BattleStanding(a, d) : a \in Troops(1, Divisors), d \in Troops(1, Divisors)} :
        StandingCV(s) <= MaxExtCV}

\* What results is called with: the standing under study or a standing one
\* round after it, under the air strike of the study.
NextArgs ==
    [init : {study.init} \cup RoundOutcomes(study.init, study.air_strike),
     air_strike : {study.air_strike}]

\* line 212: results calls extended_outcome_distribution(init, air_strike)
CallResults ==
    /\ stack = <<>>
    /\ calls < MaxCalls
    /\ returned # <<>> => summary # "none"
    /\ \E key \in NextArgs :
         /\ arg' = key
         /\ stack' = <<Frame(key.init, key.air_strike)>>
    /\ calls' = calls + 1
    /\ returned' = <<>>
    /\ summary' = "none"
    /\ UNCHANGED <<cache, expanded, study>>
    /\ UNCHANGED roundVars

\* lines 173-183: the lookup of @cache, the base cases, the estimation
Enter ==
    /\ stack # <<>>
    /\ Top.pc = "call"
    /\ LET key == Key(Top)
       IN  IF Cached(key) THEN
               /\ Return(cache[key])
               /\ UNCHANGED <<cache, expanded>>
           ELSE IF BaseCase(Top.init) # <<>> THEN
               /\ cache' = (key :> BaseCase(Top.init)[1]) @@ cache
               /\ Return(BaseCase(Top.init)[1])
               /\ UNCHANGED expanded
           ELSE
               /\ \E one_round \in Samples(Top.init, Top.air_strike) :
                    LET others == PopSelf(one_round, Top.init)
                    IN  stack' = [stack EXCEPT ![Len(stack)] =
                                     [@ EXCEPT !.pc = "loop",
                                               !.pending = Recursed(others)]]
               /\ expanded' = (key :> Count(key) + 1) @@ expanded
               /\ UNCHANGED <<cache, returned>>
    /\ UNCHANGED <<study, arg, summary, calls>>
    /\ UNCHANGED roundVars

\* lines 192-195: a pass of the loop that calls extended_outcome_distribution;
\* the dictionary is walked in the order the sampling filled it, any order
LoopBody ==
    /\ stack # <<>>
    /\ Top.pc = "loop"
    /\ \E next_standing \in Top.pending :
         stack' = Append([stack EXCEPT ![Len(stack)] =
                             [@ EXCEPT !.pending = @ \ {next_standing}]],
                         Frame(next_standing, Top.air_strike))
    /\ UNCHANGED <<cache, expanded, study, arg, returned, summary, calls>>
    /\ UNCHANGED roundVars

\* lines 196-198, and @cache storing what the call returns
Finish ==
    /\ stack # <<>>
    /\ Top.pc = "loop"
    /\ Top.pending = {}
    /\ LET key == Key(Top)
           value == SampledOutcome(Count(key))
       IN  /\ cache' = (key :> value) @@ cache
           /\ Return(value)
    /\ UNCHANGED <<expanded, study, arg, summary, calls>>
    /\ UNCHANGED roundVars

\* line 212: results hands the extended outcome to interpret_extended_outcome
Interpret ==
    /\ stack = <<>>
    /\ returned # <<>>
    /\ summary = "none"
    /\ summary' \in interpret_extended_outcome(returned[1])
    /\ UNCHANGED <<cache, stack, expanded, study, arg, returned, calls>>
    /\ UNCHANGED roundVars

ExtNext == CallResults \/ Enter \/ LoopBody \/ Finish \/ Interpret

ExtInit ==
    /\ init = BattleStanding(NoTroops, NoTroops)
    /\ air_strike = NoTroops
    /\ nrounds = 0
    /\ pc = "idle"
    /\ carryover = 0
    /\ firing_defenders = NoTroops
    /\ remaining_attackers = NoTroops
    /\ remaining_defenders = NoTroops
    /\ call = NoCall
    /\ cache = <<>>
    /\ stack = <<>>
    /\ expanded = <<>>
    /\ study \in [init : ExtStandings, air_strike : AirStrikes]
    /\ arg = NoKey
    /\ returned = <<>>
    /\ summary = "none"
    /\ calls = 0

SpecExt == ExtInit /\ [][ExtNext]_vars

----------------------------------------------------------------------------
(* Properties of apply_damage and battle_round_outcome *)

\* An apply_damage call has returned and call holds it.
Returned == pc \in {"struck", "returned", "done"}

Categories == <<"triple_fire_cv", "double_fire_cv", "single_fire_cv">>

\* The largest combat value of the troops, over all categories together.
TopValue(t) ==
    MaxOf(t.triple_fire_cv \o t.double_fire_cv \o t.single_fire_cv)

\* One damage point under a preference order of the categories: the first
\* category of the order that holds the top value loses one point at the
\* first unit holding it.
GreedyStep(t, order) ==
    LET top == TopValue(t)
        k == CHOOSE i \in 1..3 :
                /\ \E u \in 1..Len(t[order[i]]) : t[order[i]][u] = top
                /\ \A j \in 1..(i - 1) :
                      \A u \in 1..Len(t[order[j]]) : t[order[j]][u] # top
        cat == order[k]
        unit == CHOOSE u \in 1..Len(t[cat]) :
                   t[cat][u] = top /\ \A v \in 1..(u - 1) : t[cat][v] # top
    IN  [t EXCEPT ![cat][unit] = top - 1]

RECURSIVE Greedy(_, _, _)
Greedy(t, d, order) ==
    IF d <= 0 \/ TopValue(t) = 0 THEN t
    ELSE Greedy(GreedyStep(t, order), d - 1, order)

LeqSeq(a, b) == Len(a) = Len(b) /\ \A i \in 1..Len(a) : a[i] <= b[i]

LeqTroops(a, b) ==
    /\ LeqSeq(a.triple_fire_cv, b.triple_fire_cv)
    /\ LeqSeq(a.double_fire_cv, b.double_fire_cv)
    /\ LeqSeq(a.single_fire_cv, b.single_fire_cv)

LeqStanding(a, b) ==
    LeqTroops(a.attacker, b.attacker) /\ LeqTroops(a.defender, b.defender)

\* C1: the carry-over apply_damage returns is hits mod hits_to_damage of the
\* victim, hits being the carry-over passed in plus the hits rolled.
C1_CarryIsRemainderOfHits ==
    (Returned /\ call.victim.hits_to_damage >= 1) =>
        call.carryover = (call.carry + call.rolled) % call.victim.hits_to_damage

\* C2 as claimed: the damage points go one by one to a unit of top combat
\* value, ties going to triple fire, then double fire, then single fire.
C2_TiesToTripleFirst ==
    (Returned /\ call.victim.hits_to_damage >= 1) =>
        call.troops = Greedy(call.victim, call.damage, Categories)

\* C2 as amended: the damage points go one by one to a unit of top combat
\* value, ties going to single fire, then double fire, then triple fire, and
\* inside the category to its first unit of that value.
C2_TiesToSingleFirst ==
    (Returned /\ call.victim.hits_to_damage >= 1) =>
        call.troops =
            Greedy(call.victim, call.damage,
                   <<"single_fire_cv", "double_fire_cv", "triple_fire_cv">>)

\* A victim whose top value is shared by two categories took damage.
C2_Witness ==
    /\ Returned
    /\ call.damage >= 1
    /\ TopValue(call.victim) > 0
    /\ MaxOf(call.victim.triple_fire_cv) = TopValue(call.victim)
    /\ MaxOf(call.victim.double_fire_cv) = TopValue(call.victim)
    /\ call.troops # call.victim

\* Inside a round no firing overwrites what an earlier firing returned.
LocalsKept ==
    (pc = "struck" \/ pc = "returned") =>
        /\ carryover' = carryover
        /\ firing_defenders' = firing_defenders
        /\ (pc = "returned" => remaining_attackers' = remaining_attackers)

\* C3: the round is three firings in order: the air strike at the initial
\* defender with no carry-over; the struck defender at the initial attacker
\* with no carry-over, the carry-over of this firing being dropped; the
\* remaining attacker at the struck defender, the carry-over of the first
\* firing added to the hits rolled before they become damage.  The outcome
\* is the attacker after the second and the defender after the third.
C3_RoundOrder ==
    /\ [](pc = "struck" =>
            /\ call.victim = init.defender /\ call.aggressor = air_strike
            /\ call.carry = 0
            /\ firing_defenders = call.troops /\ carryover = call.carryover)
    /\ [](pc = "returned" =>
            /\ call.victim = init.attacker /\ call.aggressor = firing_defenders
            /\ call.carry = 0
            /\ remaining_attackers = call.troops)
    /\ [](pc = "done" =>
            /\ call.victim = firing_defenders
            /\ call.aggressor = remaining_attackers
            /\ call.carry = carryover
            /\ call.hits = carryover + call.rolled
            /\ call.damage = call.hits \div call.victim.hits_to_damage
            /\ Outcome = BattleStanding(remaining_attackers, call.troops))
    /\ [][LocalsKept]_vars

\* The third firing ran with a carry-over of the first and hits of its own.
C3_Witness == pc = "done" /\ carryover > 0 /\ call.rolled > 0

\* C4: no combat value of the outcome of a round exceeds the value at the
\* same category and position of the standing the round started from, and so
\* from round to round.
C4_NeverIncreases ==
    /\ [](pc = "done" => LeqStanding(Outcome, init))
    /\ [][LeqStanding(init', init)]_vars

\* A second round has run and both sides have lost combat value in it.
C4_Witness ==
    /\ pc = "done" /\ nrounds < MaxRounds
    /\ TotalCV(remaining_attackers) < TotalCV(init.attacker)
    /\ TotalCV(remaining_defenders) < TotalCV(init.defender)

\* C8: no troops with a divisor of zero or less reach apply_damage, and no
\* round fails on the divisor.
C8_DivisorRejected ==
    /\ pc # "ZeroDivisionError"
    /\ Returned => call.victim.hits_to_damage >= 1

\* C10: a round that starts with both sides standing never ends with both
\* sides defeated.
C10_NeverBothDefeated ==
    (pc = "done" /\ BothStand(init)) =>
        ~(is_defeated(remaining_attackers) /\ is_defeated(remaining_defenders))

\* A round between two standing sides has ended with the attacker defeated.
C10_Witness ==
    /\ pc = "done" /\ BothStand(init)
    /\ is_defeated(remaining_attackers) /\ ~is_defeated(remaining_defenders)

----------------------------------------------------------------------------
(* Properties of extended_outcome_distribution and results *)

\* C5 as claimed: a defeated attacker gives exactly [(0,1)] and a defeated
\* defender gives exactly [(1,0)], for every standing of either kind.
C5_EitherSideDefeated ==
    returned # <<>> =>
        /\ is_defeated(arg.init.attacker) => returned[1].list = << <<0, 1>> >>
        /\ is_defeated(arg.init.defender) => returned[1].list = << <<1, 0>> >>

\* C5 as amended: a defeated attacker gives exactly [(0,1)]; a defeated
\* defender gives exactly [(1,0)] when the attacker is not defeated too; in
\* both cases no round of the standing is simulated.
C5_AttackerTestedFirst ==
    returned # <<>> =>
        /\ is_defeated(arg.init.attacker) =>
              returned[1].list = << <<0, 1>> >> /\ Count(arg) = 0
        /\ (is_defeated(arg.init.defender) /\ ~is_defeated(arg.init.attacker)) =>
              returned[1].list = << <<1, 0>> >> /\ Count(arg) = 0

\* A standing with both sides defeated was analysed.
C5_Witness ==
    /\ returned # <<>>
    /\ is_defeated(arg.init.attacker) /\ is_defeated(arg.init.defender)
    /\ returned[1].list = << <<0, 1>> >>

\* A call that finds its key in the table returns what the table holds and
\* estimates nothing; no step drops or changes an entry of the table.
CacheKept ==
    /\ \A k \in DOMAIN cache : k \in DOMAIN cache' /\ cache'[k] = cache[k]
    /\ (stack # <<>> /\ Top.pc = "call" /\ Key(Top) \in DOMAIN cache) =>
          /\ expanded' = expanded
          /\ Len(stack) = 1 => returned' = <<cache[Key(Top)]>>

\* C6: a standing with both sides standing has its one-round distribution
\* estimated at most once for each pair of standing and air strike; later
\* calls with an equal pair return the stored result; the keys of the table
\* only grow.
C6_ExpandedOnce ==
    /\ [](\A k \in DOMAIN expanded : expanded[k] <= 1)
    /\ [](\A k \in DOMAIN cache : cache[k].sample <= 1)
    /\ [][CacheKept]_vars

\* A second call of results came back for a standing estimated in the first.
C6_Witness ==
    /\ calls >= 2 /\ stack = <<>> /\ returned # <<>>
    /\ BothStand(arg.init)
    /\ Count(arg) = 1
    /\ returned[1] = cache[arg]

\* C7: results on a standing with a side already defeated, whose extended
\* outcome [(0,1)] or [(1,0)] has a column that sums to zero, ends with a
\* summary and not with a division fault.
C7_SummaryOfZeroColumn ==
    (summary # "none" /\ returned[1].sample = 0) => summary = "summary"

\* C9: every standing extended_outcome_distribution recurses on has a
\* smaller total combat value than the standing of the calling activation,
\* so the chain of activations is shorter than the combat value of the
\* standing it started with.
C9_RecursionDecreases ==
    /\ \A i \in 2..Len(stack) :
          StandingCV(stack[i].init) < StandingCV(stack[i - 1].init)
    /\ \A i \in 1..Len(stack) :
          \A s \in stack[i].pending : StandingCV(s) < StandingCV(stack[i].init)
    /\ (stack # <<>> /\ BothStand(stack[1].init)) =>
          Len(stack) < StandingCV(stack[1].init)

\* An activation called from the loop of another is running.
C9_Witness == Len(stack) >= 2 /\ Top.pc = "loop"

====
